---- MODULE Spec2Model ----
(***************************************************************************)
(* A model of jsonrepair (src/src/regular/jsonrepair.ts).                  *)
(*                                                                         *)
(* A text is a sequence of characters.  A character is a string: an ASCII  *)
(* character is the one-character string of itself ("\n", "\t", "\r" and   *)
(* "\f" for the escapes TLA+ has), any other code point is named by its    *)
(* code point ("U+00A0").  The string "" stands for "no character": what   *)
(* text[i] (undefined), text.charAt(i) ('') and text.charCodeAt(i) (NaN)   *)
(* give outside the text; it belongs to no character class.                *)
(*                                                                         *)
(* jsonrepair is a pure function of its input.  Its closure variables i    *)
(* and output, the boolean a recognizer returns and a thrown               *)
(* JSONRepairError are the fields of a parser state that every recognizer  *)
(* takes and gives back.                                                   *)
(***************************************************************************)
EXTENDS Integers, Sequences, FiniteSets, TLC

VARIABLES
    parts,   \* the pieces the input was put together from
    text,    \* the input of jsonrepair: the pieces, joined
    pc,      \* "ready", "repaired" (jsonrepair has run on text), "repeated"
    parser,  \* the closure variables of jsonrepair, as its run left them
    result,  \* what jsonrepair(text) returned or threw
    again    \* what jsonrepair returned or threw, run on its own output

vars == <<parts, text, pc, parser, result, again>>

----------------------------------------------------------------------------
(* Characters and texts                                                    *)

\* text[k], text.charAt(k), text.charCodeAt(k): "" outside the text
At(t, k) == IF k >= 0 /\ k < Len(t) THEN t[k + 1] ELSE ""

Clamp(t, k) == IF k < 0 THEN 0 ELSE IF k > Len(t) THEN Len(t) ELSE k

\* t.slice(a, b) for a, b >= 0 (the only use the program makes of it)
Slice(t, a, b) == SubSeq(t, Clamp(t, a) + 1, Clamp(t, b))

\* t.substring(a) and t.substring(a, b) for a <= b
SubstringFrom(t, a) == Slice(t, a, Len(t))

\* t.lastIndexOf(c) for a character c: 0-based, -1 when absent
RECURSIVE LastIndexFrom(_, _, _)
LastIndexFrom(t, c, k) ==
    IF k < 0 THEN -1
    ELSE IF At(t, k) = c THEN k
    ELSE LastIndexFrom(t, c, k - 1)

LastIndexOf(t, c) == LastIndexFrom(t, c, Len(t) - 1)

Letters ==
    {"a", "b", "c", "d", "e", "f", "g", "h", "i", "j", "k", "l", "m",
     "n", "o", "p", "q", "r", "s", "t", "u", "v", "w", "x", "y", "z",
     "A", "B", "C", "D", "E", "F", "G", "H", "I", "J", "K", "L", "M",
     "N", "O", "P", "Q", "R", "S", "T", "U", "V", "W", "X", "Y", "Z"}

----------------------------------------------------------------------------
(* Character classifiers and string utilities of utils/stringUtils, which  *)
(* jsonrepair.ts imports (lines 2-41).                                     *)

isWhitespace(c) == c \in {" ", "\n", "\t", "\r"}

isSpecialWhitespace(c) ==
    c \in {"U+00A0", "U+2000", "U+2001", "U+2002", "U+2003", "U+2004",
           "U+2005", "U+2006", "U+2007", "U+2008", "U+2009", "U+200A",
           "U+2028", "U+2029", "U+202F", "U+205F", "U+3000"}

isDoubleQuote(c) == c = "\""

isSingleQuote(c) == c = "'"

isDoubleQuoteLike(c) ==
    c \in {"\"", "U+201C", "U+201D", "U+201F", "U+2033", "U+2036"}

isSingleQuoteLike(c) ==
    c \in {"'", "U+2018", "U+2019", "U+201B", "U+2032", "U+2035", "U+0060", "U+00B4"}

isQuote(c) == isDoubleQuoteLike(c) \/ isSingleQuoteLike(c)

isDelimiter(c) ==
    \/ c \in {",", ":", "[", "]", "{", "}", "(", ")", "\n", "+"}
    \/ isQuote(c)

isDelimiterExceptSlash(c) == isDelimiter(c) /\ c # "/"

isDigit(c) == c \in {"0", "1", "2", "3", "4", "5", "6", "7", "8", "9"}

isHex(c) ==
    isDigit(c) \/ c \in {"a", "b", "c", "d", "e", "f", "A", "B", "C", "D", "E", "F"}

\* U+0000..U+001F in code point order
ControlCharacterCodes ==
    <<"U+0000", "U+0001", "U+0002", "U+0003", "U+0004", "U+0005", "U+0006",
      "U+0007", "U+0008", "\t", "\n", "U+000B", "\f", "\r", "U+000E",
      "U+000F", "U+0010", "U+0011", "U+0012", "U+0013", "U+0014", "U+0015",
      "U+0016", "U+0017", "U+0018", "U+0019", "U+001A", "U+001B", "U+001C",
      "U+001D", "U+001E", "U+001F">>

\* the control characters that have a standard short escape; the others are
\* not valid string characters
isControlCharacter(c) == c \in {"U+0008", "\f", "\n", "\r", "\t"}

\* U+0020 and above
isValidStringCharacter(c) ==
    c # "" /\ \A k \in 1..Len(ControlCharacterCodes) : ControlCharacterCodes[k] # c

\* a character that can begin a value
isStartOfValue(c) ==
    \/ c \in {"[", "{", "-", "_"}
    \/ c \in Letters \/ isDigit(c)
    \/ isQuote(c)

isFunctionNameCharStart(c) == c \in Letters \cup {"_", "$"}

isFunctionNameChar(c) == isFunctionNameCharStart(c) \/ isDigit(c)

\* an identifier: a MongoDB type name or a JSONP callback
isFunctionName(t) ==
    /\ Len(t) > 0
    /\ isFunctionNameCharStart(t[1])
    /\ \A k \in 2..Len(t) : isFunctionNameChar(t[k])

RECURSIVE TrailingBlankStart(_, _)
\* the index where the run of spaces, tabs and returns that ends at k begins
TrailingBlankStart(t, k) ==
    IF k > 0 /\ At(t, k - 1) \in {" ", "\t", "\r"}
    THEN TrailingBlankStart(t, k - 1)
    ELSE k

\* the text ends, ignoring trailing whitespace, with a comma or a newline
endsWithCommaOrNewline(t) ==
    At(t, TrailingBlankStart(t, Len(t)) - 1) \in {",", "\n"}

RECURSIVE TrailingWhitespaceStart(_, _)
TrailingWhitespaceStart(t, k) ==
    IF isWhitespace(At(t, k - 1))
    THEN TrailingWhitespaceStart(t, k - 1)
    ELSE k

\* splice textToInsert in before the trailing whitespace of t
insertBeforeLastWhitespace(t, textToInsert) ==
    LET index == TrailingWhitespaceStart(t, Len(t))
    IN  Slice(t, 0, index) \o textToInsert \o SubstringFrom(t, index)

\* remove the last occurrence of the character c, and with
\* stripRemainingText everything after it
stripLastOccurrence(t, c, stripRemainingText) ==
    LET index == LastIndexOf(t, c)
    IN  IF index = -1 THEN t
        ELSE Slice(t, 0, index) \o
             (IF stripRemainingText THEN <<>> ELSE SubstringFrom(t, index + 1))

removeAtIndex(t, start, count) ==
    Slice(t, 0, start) \o SubstringFrom(t, start + count)

----------------------------------------------------------------------------
(* The parser state: the closure variables of jsonrepair (i, output), the  *)
(* value the last recognizer returned (ok) and the JSONRepairError thrown, *)
(* if any (err is its message, the fixed text and then the characters it   *)
(* quotes, empty when none was thrown; pos its position).                  *)

NewState(t) == [text |-> t, i |-> 0, out |-> <<>>, ok |-> FALSE, err |-> <<>>, pos |-> 0]

Thrown(s) == s.err # <<>>

\* text[i], text.charAt(i), text.charCodeAt(i): i is never negative
Cur(s) == IF s.i < Len(s.text) THEN s.text[s.i + 1] ELSE ""

AtEnd(s) == s.i >= Len(s.text)

Ret(s, b) == [s EXCEPT !.ok = b]

Throw(s, message, position) == [s EXCEPT !.ok = FALSE, !.err = message, !.pos = position]

\* a || b stops at a: the recognizer a returned true or threw
Done(s) == s.ok \/ Thrown(s)

controlCharacters(c) ==
    CASE c = "U+0008" -> <<"\\", "b">>
      [] c = "\f" -> <<"\\", "f">>
      [] c = "\n" -> <<"\\", "n">>
      [] c = "\r" -> <<"\\", "r">>
      [] c = "\t" -> <<"\\", "t">>
      [] OTHER -> <<"u", "n", "d", "e", "f", "i", "n", "e", "d">>

escapeCharacters == {"\"", "\\", "/", "b", "f", "n", "r", "t"}

HexDigits ==
    <<"0", "1", "2", "3", "4", "5", "6", "7", "8", "9", "a", "b", "c", "d", "e", "f">>

\* the code point of a control character
ControlCode(c) == (CHOOSE k \in 1..Len(ControlCharacterCodes) : ControlCharacterCodes[k] = c) - 1

\* what JSON.stringify writes for one character of a string
StringifyChar(c) ==
    IF c = "\"" THEN <<"\\", "\"">>
    ELSE IF c = "\\" THEN <<"\\", "\\">>
    ELSE IF c \in {"U+0008", "\f", "\n", "\r", "\t"} THEN controlCharacters(c)
    ELSE IF ~isValidStringCharacter(c)
    THEN <<"\\", "u", "0", "0", HexDigits[(ControlCode(c) \div 16) + 1],
           HexDigits[(ControlCode(c) % 16) + 1]>>
    ELSE <<c>>

RECURSIVE StringifyChars(_)
StringifyChars(t) ==
    IF t = <<>> THEN <<>> ELSE StringifyChar(Head(t)) \o StringifyChars(Tail(t))

\* JSON.stringify(symbol)
Stringify(t) == <<"\"">> \o StringifyChars(t) \o <<"\"">>

throwInvalidCharacter(s, char) ==
    Throw(s, <<"Invalid character ">> \o Stringify(<<char>>), s.i)

throwUnexpectedCharacter(s) ==
    Throw(s, <<"Unexpected character ">> \o Stringify(<<Cur(s)>>), s.i)

throwUnexpectedEnd(s) == Throw(s, <<"Unexpected end of json string">>, Len(s.text))

throwObjectKeyExpected(s) == Throw(s, <<"Object key expected">>, s.i)

throwColonExpected(s) == Throw(s, <<"Colon expected">>, s.i)

throwInvalidUnicodeCharacter(s) ==
    Throw(s, <<"Invalid unicode character \"">> \o Slice(s.text, s.i, s.i + 6) \o <<"\"">>,
          s.i)

----------------------------------------------------------------------------
(* Whitespace and single characters                                         *)

RECURSIVE WhitespaceEnd(_, _)
\* the index the loop of parseWhitespace (lines 154-165) stops at
WhitespaceEnd(t, k) ==
    IF isWhitespace(At(t, k)) \/ isSpecialWhitespace(At(t, k))
    THEN WhitespaceEnd(t, k + 1)
    ELSE k

\* lines 152-173: a special whitespace character is written as a space
parseWhitespace(s) ==
    IF isWhitespace(Cur(s)) \/ isSpecialWhitespace(Cur(s))
    THEN [s EXCEPT !.i = WhitespaceEnd(s.text, s.i),
                   !.out = @ \o [k \in 1..(WhitespaceEnd(s.text, s.i) - s.i) |->
                                    IF isWhitespace(s.text[s.i + k])
                                    THEN s.text[s.i + k]
                                    ELSE " "],
                   !.ok = TRUE]
    ELSE Ret(s, FALSE)

\* lines 135-150; the loop over parseComment is commented out in the source
\* (lines 139-147), and parseComment (lines 175-198) is called from nowhere
\* else, so that what is left returns what parseWhitespace returns: i > start
\* exactly when whitespace was parsed
parseWhitespaceAndSkipComments(s) == parseWhitespace(s)

parseCharacter(s, c) ==
    IF Cur(s) = c
    THEN [s EXCEPT !.out = Append(@, Cur(s)), !.i = @ + 1, !.ok = TRUE]
    ELSE Ret(s, FALSE)

skipCharacter(s, c) ==
    IF Cur(s) = c
    THEN [s EXCEPT !.i = @ + 1, !.ok = TRUE]
    ELSE Ret(s, FALSE)

skipEscapeCharacter(s) == skipCharacter(s, "\\")

skipEllipsis(s) ==
    LET s1 == parseWhitespaceAndSkipComments(s)
    IN  IF /\ At(s1.text, s1.i) = "."
           /\ At(s1.text, s1.i + 1) = "."
           /\ At(s1.text, s1.i + 2) = "."
        THEN LET s2 == parseWhitespaceAndSkipComments([s1 EXCEPT !.i = @ + 3])
             IN  Ret(skipCharacter(s2, ","), TRUE)
        ELSE Ret(s1, FALSE)

RECURSIVE prevNonWhitespaceIndex(_, _)
prevNonWhitespaceIndex(t, prev) ==
    IF prev > 0 /\ isWhitespace(At(t, prev))
    THEN prevNonWhitespaceIndex(t, prev - 1)
    ELSE prev

atEndOfNumber(s) ==
    AtEnd(s) \/ isDelimiter(Cur(s)) \/ isWhitespace(Cur(s))

----------------------------------------------------------------------------
(* Numbers and keywords                                                     *)

repairNumberEndingWithNumericSymbol(s, start) ==
    [s EXCEPT !.out = @ \o Slice(s.text, start, s.i) \o <<"0">>]

RECURSIVE DigitsEnd(_, _)
\* while (isDigit(text.charCodeAt(i))) i++
DigitsEnd(t, k) == IF isDigit(At(t, k)) THEN DigitsEnd(t, k + 1) ELSE k

\* hasInvalidLeadingZero, were the digit after the zero forgotten: /^0/
hasInvalidLeadingZeroAlone(num) == At(num, 0) = "0"

\* /^0\d/.test(num)
hasInvalidLeadingZero(num) == At(num, 0) = "0" /\ isDigit(At(num, 1))

\* NumberEnd, were the cursor left where the scan stopped
NumberEndNoRewind(s, start) ==
    IF ~atEndOfNumber(s) THEN [s EXCEPT !.ok = FALSE]
    ELSE IF s.i > start
    THEN LET num == Slice(s.text, start, s.i)
         IN  [s EXCEPT !.out = @ \o (IF hasInvalidLeadingZero(num)
                                     THEN <<"\"">> \o num \o <<"\"">>
                                     ELSE num),
                       !.ok = TRUE]
    ELSE Ret(s, FALSE)

\* lines 670-685: the end of parseNumber, the cursor after the last digit
NumberEnd(s, start) ==
    IF ~atEndOfNumber(s) THEN [s EXCEPT !.i = start, !.ok = FALSE]
    ELSE IF s.i > start
    THEN LET num == Slice(s.text, start, s.i)
         IN  [s EXCEPT !.out = @ \o (IF hasInvalidLeadingZero(num)
                                     THEN <<"\"">> \o num \o <<"\"">>
                                     ELSE num),
                       !.ok = TRUE]
    ELSE Ret(s, FALSE)

\* lines 652-668: the exponent
NumberExponent(s, start) ==
    IF Cur(s) \in {"e", "E"}
    THEN LET s1 == [s EXCEPT !.i = @ + 1]
             s2 == IF Cur(s1) \in {"-", "+"} THEN [s1 EXCEPT !.i = @ + 1] ELSE s1
         IN  IF atEndOfNumber(s2)
             THEN Ret(repairNumberEndingWithNumericSymbol(s2, start), TRUE)
             ELSE IF ~isDigit(Cur(s2))
             THEN [s2 EXCEPT !.i = start, !.ok = FALSE]
             ELSE NumberEnd([s2 EXCEPT !.i = DigitsEnd(s2.text, s2.i)], start)
    ELSE NumberEnd(s, start)

\* lines 637-650: the fraction
NumberFraction(s, start) ==
    IF Cur(s) = "."
    THEN LET s1 == [s EXCEPT !.i = @ + 1]
         IN  IF atEndOfNumber(s1)
             THEN Ret(repairNumberEndingWithNumericSymbol(s1, start), TRUE)
             ELSE IF ~isDigit(Cur(s1))
             THEN [s1 EXCEPT !.i = start, !.ok = FALSE]
             ELSE NumberExponent([s1 EXCEPT !.i = DigitsEnd(s1.text, s1.i)], start)
    ELSE NumberExponent(s, start)

\* lines 633-635: the integer part, leading zeros allowed here
NumberInteger(s, start) ==
    NumberFraction([s EXCEPT !.i = DigitsEnd(s.text, s.i)], start)

parseNumber(s) ==
    LET start == s.i
    IN  IF Cur(s) = "-"
        THEN LET s1 == [s EXCEPT !.i = @ + 1]
             IN  IF atEndOfNumber(s1)
                 THEN Ret(repairNumberEndingWithNumericSymbol(s1, start), TRUE)
                 ELSE IF ~isDigit(Cur(s1))
                 THEN [s1 EXCEPT !.i = start, !.ok = FALSE]
                 ELSE NumberInteger(s1, start)
        ELSE NumberInteger(s, start)

parseKeyword(s, name, value) ==
    IF Slice(s.text, s.i, s.i + Len(name)) = name
    THEN [s EXCEPT !.out = @ \o value, !.i = @ + Len(name), !.ok = TRUE]
    ELSE Ret(s, FALSE)

kwTrue == <<"t", "r", "u", "e">>
kwFalse == <<"f", "a", "l", "s", "e">>
kwNull == <<"n", "u", "l", "l">>

parseKeywordTrue(s) == parseKeyword(s, kwTrue, kwTrue)
parseKeywordFalse(s) == parseKeyword(s, kwFalse, kwFalse)
parseKeywordNull(s) == parseKeyword(s, kwNull, kwNull)
parseKeywordPyTrue(s) == parseKeyword(s, <<"T", "r", "u", "e">>, kwTrue)
parseKeywordPyFalse(s) == parseKeyword(s, <<"F", "a", "l", "s", "e">>, kwFalse)
parseKeywordPyNone(s) == parseKeyword(s, <<"N", "o", "n", "e">>, kwNull)

\* lines 693-701: the first keyword that parses; a keyword that does not
\* parse leaves the state as it is
parseKeywords(s) ==
    CASE parseKeywordTrue(s).ok -> parseKeywordTrue(s)
      [] parseKeywordFalse(s).ok -> parseKeywordFalse(s)
      [] parseKeywordNull(s).ok -> parseKeywordNull(s)
      [] parseKeywordPyTrue(s).ok -> parseKeywordPyTrue(s)
      [] parseKeywordPyFalse(s).ok -> parseKeywordPyFalse(s)
      [] OTHER -> parseKeywordPyNone(s)

----------------------------------------------------------------------------
(* Strings                                                                  *)
(*                                                                          *)
(* A function whose result the source tests several times is split where   *)
(* the result is taken: the part after a call takes the state the call     *)
(* gave back as its parameter.                                              *)

RECURSIVE parseValue(_), parseString(_, _), StringLoop(_, _, _, _, _, _, _),
          ConcatenatedLoop(_, _), ObjectLoop(_, _), ArrayLoop(_, _)

\* "return true" after a call that may have thrown
ReturnTrue(s) == IF Thrown(s) THEN s ELSE Ret(s, TRUE)

\* the end quote class chosen from the opening quote (lines 437-443)
EndQuoteClass(c) ==
    IF isDoubleQuote(c) THEN "isDoubleQuote"
    ELSE IF isSingleQuote(c) THEN "isSingleQuote"
    ELSE IF isSingleQuoteLike(c) THEN "isSingleQuoteLike"
    ELSE "isDoubleQuoteLike"

isEndQuote(class, c) ==
    CASE class = "isDoubleQuote" -> isDoubleQuote(c)
      [] class = "isSingleQuote" -> isSingleQuote(c)
      [] class = "isSingleQuoteLike" -> isSingleQuoteLike(c)
      [] OTHER -> isDoubleQuoteLike(c)

RECURSIVE HexEnd(_, _, _)
\* while (j < 6 && isHex(text.charCodeAt(i + j))) j++
HexEnd(t, i, j) == IF j < 6 /\ isHex(At(t, i + j)) THEN HexEnd(t, i, j + 1) ELSE j

\* ConcatenatedAfterString, were the start quote of the second string kept
ConcatenatedAfterStringQuoted(s, start) ==
    IF Thrown(s) THEN s
    ELSE IF s.ok
    THEN ConcatenatedLoop(s, TRUE)
    ELSE ConcatenatedLoop([s EXCEPT !.out = insertBeforeLastWhitespace(@, <<"\"">>)],
                          TRUE)

\* one turn of the loop of parseConcatenatedString (lines 591-607), from the
\* call of parseString on: s is the state parseString gave back
ConcatenatedAfterString(s, start) ==
    IF Thrown(s) THEN s
    ELSE IF s.ok
    THEN ConcatenatedLoop([s EXCEPT !.out = removeAtIndex(@, start, 1)], TRUE)
    ELSE ConcatenatedLoop([s EXCEPT !.out = insertBeforeLastWhitespace(@, <<"\"">>)],
                          TRUE)

\* the loop of parseConcatenatedString (lines 591-607)
ConcatenatedLoop(s, processed) ==
    IF Cur(s) = "+"
    THEN LET s1 == parseWhitespaceAndSkipComments([s EXCEPT !.i = @ + 1])
             s2 == [s1 EXCEPT !.out = stripLastOccurrence(@, "\"", TRUE)]
         IN  ConcatenatedAfterString(parseString(s2, FALSE), Len(s2.out))
    ELSE Ret(s, processed)

parseConcatenatedString(s) ==
    ConcatenatedLoop(parseWhitespaceAndSkipComments(s), FALSE)

\* lines 452-470: the text ended inside the string
StringAtEndOfText(s, str, stopAtDelimiter, iBefore, oBefore) ==
    LET iPrev == prevNonWhitespaceIndex(s.text, s.i - 1)
    IN  IF ~stopAtDelimiter /\ isDelimiter(At(s.text, iPrev))
        THEN parseString([s EXCEPT !.i = iBefore, !.out = Slice(@, 0, oBefore)], TRUE)
        ELSE [s EXCEPT !.out = @ \o insertBeforeLastWhitespace(str, <<"\"">>),
                       !.ok = TRUE]

\* lines 513-523: in stop-at-delimiter mode, at a delimiter
StringAtDelimiter(s, str) ==
    ReturnTrue(parseConcatenatedString(
        [s EXCEPT !.out = @ \o insertBeforeLastWhitespace(str, <<"\"">>)]))

\* lines 574-577: the end of a turn of the loop
StringNext(s, skipEscapeChars) ==
    IF skipEscapeChars THEN skipEscapeCharacter(s) ELSE s

\* lines 481-512: s is the state after the end quote at iQuote and the
\* whitespace that follows it
StringAtEndQuote(s, iQuote, str, stopAtDelimiter, skipEscapeChars, endQuote, iBefore, oBefore) ==
    CASE \/ stopAtDelimiter
         \/ AtEnd(s)
         \/ isDelimiter(Cur(s))
         \/ isQuote(Cur(s))
         \/ isDigit(Cur(s))
           -> ReturnTrue(parseConcatenatedString(s))
      [] isDelimiter(At(s.text, prevNonWhitespaceIndex(s.text, iQuote - 1)))
           -> parseString([s EXCEPT !.i = iBefore, !.out = Slice(@, 0, oBefore)], TRUE)
      [] OTHER
           -> StringLoop(StringNext([s EXCEPT !.out = Slice(@, 0, oBefore),
                                              !.i = iQuote + 1],
                                    skipEscapeChars),
                         str \o <<"\\", "\"">>,
                         stopAtDelimiter, skipEscapeChars, endQuote, iBefore, oBefore)

\* one turn of the loop of parseString (lines 451-578); str is the string
\* built so far, endQuote the class of its end quote. The arms are tried in
\* the order of the source's tests, the first that holds is taken
StringLoop(s, str, stopAtDelimiter, skipEscapeChars, endQuote, iBefore, oBefore) ==
    CASE s.i >= Len(s.text)
           -> StringAtEndOfText(s, str, stopAtDelimiter, iBefore, oBefore)
      [] isEndQuote(endQuote, Cur(s))
           -> StringAtEndQuote(
                  parseWhitespaceAndSkipComments(
                      [s EXCEPT !.i = @ + 1, !.out = @ \o Append(str, "\"")]),
                  s.i, str, stopAtDelimiter, skipEscapeChars, endQuote,
                  iBefore, oBefore)
      [] stopAtDelimiter /\ isDelimiter(Cur(s))
           -> StringAtDelimiter(s, str)
      \* lines 524-551
      [] Cur(s) = "\\" /\ At(s.text, s.i + 1) \in escapeCharacters
           -> StringLoop(StringNext([s EXCEPT !.i = @ + 2], skipEscapeChars),
                         str \o Slice(s.text, s.i, s.i + 2),
                         stopAtDelimiter, skipEscapeChars, endQuote, iBefore, oBefore)
      [] Cur(s) = "\\" /\ At(s.text, s.i + 1) = "u" /\ HexEnd(s.text, s.i, 2) = 6
           -> StringLoop(StringNext([s EXCEPT !.i = @ + 6], skipEscapeChars),
                         str \o Slice(s.text, s.i, s.i + 6),
                         stopAtDelimiter, skipEscapeChars, endQuote, iBefore, oBefore)
      [] /\ Cur(s) = "\\" /\ At(s.text, s.i + 1) = "u"
         /\ s.i + HexEnd(s.text, s.i, 2) >= Len(s.text)
           -> StringLoop(StringNext([s EXCEPT !.i = Len(s.text)], skipEscapeChars),
                         str,
                         stopAtDelimiter, skipEscapeChars, endQuote, iBefore, oBefore)
      [] Cur(s) = "\\" /\ At(s.text, s.i + 1) = "u"
           -> throwInvalidUnicodeCharacter(s)
      [] Cur(s) = "\\"
           -> StringLoop(StringNext([s EXCEPT !.i = @ + 2], skipEscapeChars),
                         str \o Slice(s.text, s.i + 1, s.i + 2),
                         stopAtDelimiter, skipEscapeChars, endQuote, iBefore, oBefore)
      \* lines 552-572
      [] Cur(s) = "\"" /\ At(s.text, s.i - 1) # "\\"
           -> StringLoop(StringNext([s EXCEPT !.i = @ + 1], skipEscapeChars),
                         str \o <<"\\", Cur(s)>>,
                         stopAtDelimiter, skipEscapeChars, endQuote, iBefore, oBefore)
      [] isControlCharacter(Cur(s))
           -> StringLoop(StringNext([s EXCEPT !.i = @ + 1], skipEscapeChars),
                         str \o controlCharacters(Cur(s)),
                         stopAtDelimiter, skipEscapeChars, endQuote, iBefore, oBefore)
      [] ~isValidStringCharacter(Cur(s))
           -> throwInvalidCharacter(s, Cur(s))
      [] OTHER
           -> StringLoop(StringNext([s EXCEPT !.i = @ + 1], skipEscapeChars),
                         Append(str, Cur(s)),
                         stopAtDelimiter, skipEscapeChars, endQuote, iBefore, oBefore)

parseString(s, stopAtDelimiter) ==
    LET skipEscapeChars == Cur(s) = "\\"
        s1 == IF skipEscapeChars THEN [s EXCEPT !.i = @ + 1] ELSE s
    IN  IF isQuote(Cur(s1))
        THEN StringLoop([s1 EXCEPT !.i = @ + 1], <<"\"">>, stopAtDelimiter,
                        skipEscapeChars, EndQuoteClass(Cur(s1)), s1.i, Len(s1.out))
        ELSE Ret(s1, FALSE)

\* parseString(), stopAtDelimiter defaulting to false
parseStringGreedy(s) == parseString(s, FALSE)

----------------------------------------------------------------------------
(* Unquoted strings and function calls                                      *)

RECURSIVE UnquotedEnd(_, _)
\* line 723: the run up to a delimiter (slash allowed) or a quote
UnquotedEnd(t, k) ==
    IF k < Len(t) /\ ~isDelimiterExceptSlash(At(t, k)) /\ ~isQuote(At(t, k))
    THEN UnquotedEnd(t, k + 1)
    ELSE k

RECURSIVE SkipWhitespaceBack(_, _)
\* line 754: go back over the whitespace that ends the run
SkipWhitespaceBack(t, k) ==
    IF isWhitespace(At(t, k - 1)) /\ k > 0 THEN SkipWhitespaceBack(t, k - 1) ELSE k

\* the characters String.prototype.trim removes
isTrimmed(c) ==
    isWhitespace(c) \/ isSpecialWhitespace(c) \/ c \in {"U+000B", "\f", "U+FEFF"}

RECURSIVE TrimLeft(_), TrimRight(_)
TrimLeft(t) == IF t # <<>> /\ isTrimmed(Head(t)) THEN TrimLeft(Tail(t)) ELSE t
TrimRight(t) ==
    IF t # <<>> /\ isTrimmed(t[Len(t)]) THEN TrimRight(SubSeq(t, 1, Len(t) - 1)) ELSE t

Trim(t) == TrimRight(TrimLeft(t))

symbolUndefined == <<"u", "n", "d", "e", "f", "i", "n", "e", "d">>

\* lines 738-747: after the value of a function call
UnquotedFunctionCallEnd(s) ==
    IF Thrown(s) THEN s
    ELSE IF Cur(s) = ")"
    THEN IF At(s.text, s.i + 1) = ";"
         THEN [s EXCEPT !.i = @ + 2, !.ok = TRUE]
         ELSE [s EXCEPT !.i = @ + 1, !.ok = TRUE]
    ELSE Ret(s, TRUE)

\* lines 732-747: a function call, the cursor at its "("
UnquotedFunctionCall(s) == UnquotedFunctionCallEnd(parseValue([s EXCEPT !.i = @ + 1]))

\* lines 750-766: the run, less its trailing whitespace, becomes a string
UnquotedSymbol(s, start) ==
    LET i1 == SkipWhitespaceBack(s.text, s.i)
        symbol == Slice(s.text, start, i1)
        s1 == [s EXCEPT !.i = i1,
                        !.out = @ \o (IF symbol = symbolUndefined
                                      THEN kwNull
                                      ELSE Stringify(symbol))]
    IN  Ret(IF Cur(s1) = "\"" THEN [s1 EXCEPT !.i = @ + 1] ELSE s1, TRUE)

parseUnquotedString(s) ==
    LET start == s.i
        s1 == [s EXCEPT !.i = UnquotedEnd(s.text, s.i)]
    IN  IF s1.i > start
        THEN IF Cur(s1) = "(" /\ isFunctionName(Trim(Slice(s.text, start, s1.i)))
             THEN UnquotedFunctionCall(s1)
             ELSE UnquotedSymbol(s1, start)
        ELSE Ret(s1, FALSE)

----------------------------------------------------------------------------
(* Objects, arrays and values                                               *)

\* lines 316-324: the closing brace, or its repair
ObjectClose(s) ==
    IF Cur(s) = "}"
    THEN [s EXCEPT !.out = Append(@, "}"), !.i = @ + 1, !.ok = TRUE]
    ELSE [s EXCEPT !.out = insertBeforeLastWhitespace(@, <<"}">>), !.ok = TRUE]

\* lines 305-313 and the next turn: s is the state parseValue gave back
ObjectAfterValue(s, processedColon, truncatedText) ==
    CASE s.ok -> ObjectLoop(s, FALSE)
      [] Thrown(s) -> s
      [] processedColon \/ truncatedText
           -> ObjectLoop([s EXCEPT !.out = @ \o kwNull], FALSE)
      [] OTHER -> throwColonExpected(s)

\* lines 295-305: s is the state parseCharacter(codeColon) gave back
ObjectAfterColon(s) ==
    CASE s.ok -> ObjectAfterValue(parseValue(s), TRUE, AtEnd(s))
      [] isStartOfValue(Cur(s)) \/ AtEnd(s)
           -> ObjectAfterValue(
                  parseValue([s EXCEPT !.out = insertBeforeLastWhitespace(@, <<":">>)]),
                  FALSE, AtEnd(s))
      [] OTHER -> throwColonExpected(s)

\* lines 278-295: s is the state parseString() || parseUnquotedString() gave
\* back; the break of line 291 goes to the closing brace
ObjectAfterKey(s) ==
    CASE s.ok -> ObjectAfterColon(parseCharacter(parseWhitespaceAndSkipComments(s), ":"))
      [] Thrown(s) -> s
      [] Cur(s) \in {"}", "{", "]", "[", ""}
           -> ObjectClose([s EXCEPT !.out = stripLastOccurrence(@, ",", FALSE)])
      [] OTHER -> throwObjectKeyExpected(s)

\* lines 263-273: the comma between two members
ObjectComma(s, initial) ==
    IF ~initial
    THEN LET c == parseCharacter(s, ",")
         IN  parseWhitespaceAndSkipComments(
                 IF ~c.ok
                 THEN [c EXCEPT !.out = insertBeforeLastWhitespace(@, <<",">>)]
                 ELSE c)
    ELSE s

\* line 277, parseString() || parseUnquotedString(): s is the state
\* parseString gave back
ObjectKey(s) == IF Done(s) THEN s ELSE parseUnquotedString(s)

\* the loop of parseObject (lines 261-314), and what follows it
ObjectLoop(s, initial) ==
    IF s.i < Len(s.text) /\ Cur(s) # "}"
    THEN ObjectAfterKey(
             ObjectKey(parseString(skipEllipsis(ObjectComma(s, initial)), FALSE)))
    ELSE ObjectClose(s)

\* lines 250-258: the opening brace and a leading comma
ObjectOpen(s) ==
    LET s1 == parseWhitespaceAndSkipComments(
                  [s EXCEPT !.out = Append(@, "{"), !.i = @ + 1])
        s2 == skipCharacter(s1, ",")
    IN  IF s2.ok THEN parseWhitespaceAndSkipComments(s2) ELSE s2

parseObject(s) ==
    IF Cur(s) = "{"
    THEN ObjectLoop(ObjectOpen(s), TRUE)
    ELSE Ret(s, FALSE)

\* lines 366-374: the closing bracket, or its repair
ArrayClose(s) ==
    IF Cur(s) = "]"
    THEN [s EXCEPT !.out = Append(@, "]"), !.i = @ + 1, !.ok = TRUE]
    ELSE [s EXCEPT !.out = insertBeforeLastWhitespace(@, <<"]">>), !.ok = TRUE]

\* lines 358-363 and the next turn: s is the state parseValue gave back; the
\* break of line 362 goes to the closing bracket
ArrayAfterValue(s) ==
    CASE s.ok -> ArrayLoop(s, FALSE)
      [] Thrown(s) -> s
      [] OTHER -> ArrayClose([s EXCEPT !.out = stripLastOccurrence(@, ",", FALSE)])

\* lines 346-354: the comma between two items
ArrayComma(s, initial) ==
    IF ~initial
    THEN LET c == parseCharacter(s, ",")
         IN  IF ~c.ok
             THEN [c EXCEPT !.out = insertBeforeLastWhitespace(@, <<",">>)]
             ELSE c
    ELSE s

\* the loop of parseArray (lines 345-364), and what follows it
ArrayLoop(s, initial) ==
    IF s.i < Len(s.text) /\ Cur(s) # "]"
    THEN ArrayAfterValue(parseValue(skipEllipsis(ArrayComma(s, initial))))
    ELSE ArrayClose(s)

\* lines 334-342: the opening bracket and a leading comma
ArrayOpen(s) ==
    LET s1 == parseWhitespaceAndSkipComments(
                  [s EXCEPT !.out = Append(@, "["), !.i = @ + 1])
        s2 == skipCharacter(s1, ",")
    IN  IF s2.ok THEN parseWhitespaceAndSkipComments(s2) ELSE s2

parseArray(s) ==
    IF Cur(s) = "["
    THEN ArrayLoop(ArrayOpen(s), TRUE)
    ELSE Ret(s, FALSE)

\* lines 130-132: s is the state the recognizers gave back
ValueEnd(s) ==
    IF Thrown(s) THEN s ELSE Ret(parseWhitespaceAndSkipComments(s), s.ok)

\* lines 124-129, a || b || ...: each operator takes the state the recognizer
\* before it gave back and, unless that one returned true or threw, calls the
\* next one
ValueOrUnquotedString(s) ==
    CASE s.ok -> ValueEnd(s)
      [] Thrown(s) -> s
      [] OTHER -> ValueEnd(parseUnquotedString(s))

ValueOrKeywords(s) ==
    CASE s.ok -> ValueEnd(s)
      [] Thrown(s) -> s
      [] OTHER -> ValueOrUnquotedString(parseKeywords(s))

ValueOrNumber(s) ==
    CASE s.ok -> ValueEnd(s)
      [] Thrown(s) -> s
      [] OTHER -> ValueOrKeywords(parseNumber(s))

ValueOrString(s) ==
    CASE s.ok -> ValueEnd(s)
      [] Thrown(s) -> s
      [] OTHER -> ValueOrNumber(parseStringGreedy(s))

ValueOrArray(s) ==
    CASE s.ok -> ValueEnd(s)
      [] Thrown(s) -> s
      [] OTHER -> ValueOrString(parseArray(s))

parseValue(s) == ValueOrArray(parseObject(parseWhitespaceAndSkipComments(s)))

----------------------------------------------------------------------------
(* The root: newline delimited JSON, redundant closers, the result          *)

RECURSIVE NewlineDelimitedLoop(_, _)

\* lines 403-409: the trailing comma goes, the brackets come
NewlineDelimitedWrap(s) ==
    [s EXCEPT !.out = <<"[", "\n">>
                      \o stripLastOccurrence(@, ",", FALSE)
                      \o <<"\n", "]">>]

\* line 400 and the test of the loop: s is the state parseValue gave back
NewlineDelimitedAfterValue(s) ==
    CASE s.ok -> NewlineDelimitedLoop(s, FALSE)
      [] Thrown(s) -> s
      [] OTHER -> NewlineDelimitedWrap(s)

\* NewlineDelimitedComma, were a missing comma not repaired
NewlineDelimitedCommaMissing(s, initial) ==
    IF ~initial THEN parseCharacter(s, ",") ELSE s

\* lines 389-398: the comma between two values
NewlineDelimitedComma(s, initial) ==
    IF ~initial
    THEN LET c == parseCharacter(s, ",")
         IN  IF ~c.ok
             THEN [c EXCEPT !.out = insertBeforeLastWhitespace(@, <<",">>)]
             ELSE c
    ELSE s

\* the loop of parseNewlineDelimitedJSON (lines 388-401)
NewlineDelimitedLoop(s, initial) ==
    NewlineDelimitedAfterValue(parseValue(NewlineDelimitedComma(s, initial)))

parseNewlineDelimitedJSON(s) == NewlineDelimitedLoop(s, TRUE)

RECURSIVE SkipRedundantEnd(_)
\* lines 108-112
SkipRedundantEnd(s) ==
    IF Thrown(s) THEN s
    ELSE IF Cur(s) \in {"}", "]"}
    THEN SkipRedundantEnd(parseWhitespaceAndSkipComments([s EXCEPT !.i = @ + 1]))
    ELSE s

\* lines 89-106: after the root value
AfterRootValue(s) ==
    LET c == parseCharacter(s, ",")
        processedComma == c.ok
        s1 == IF processedComma THEN parseWhitespaceAndSkipComments(c) ELSE c
    IN  IF isStartOfValue(Cur(s1)) /\ endsWithCommaOrNewline(s1.out)
        THEN parseNewlineDelimitedJSON(
                 IF ~processedComma
                 THEN [s1 EXCEPT !.out = insertBeforeLastWhitespace(@, <<",">>)]
                 ELSE s1)
        ELSE IF processedComma
        THEN [s1 EXCEPT !.out = stripLastOccurrence(@, ",", FALSE)]
        ELSE s1

\* RootAfterValue, were the end-of-input error to point at the start of the text
RootAfterValueAtStart(s) ==
    CASE s.ok -> SkipRedundantEnd(AfterRootValue(s))
      [] Thrown(s) -> s
      [] OTHER -> Throw(s, <<"Unexpected end of json string">>, 0)

\* lines 84-112: s is the state parseValue gave back
RootAfterValue(s) ==
    CASE s.ok -> SkipRedundantEnd(AfterRootValue(s))
      [] Thrown(s) -> s
      [] OTHER -> throwUnexpectedEnd(s)

\* lines 81-112: the parser state when jsonrepair reaches its last test
Root(t) == RootAfterValue(parseValue(NewState(t)))

Returned(output) == [kind |-> "returned", output |-> output]

ThrownError(message, position) ==
    [kind |-> "thrown", message |-> message, position |-> position]

\* Finish, were the output returned whatever is left of the input
FinishPartial(s) ==
    IF Thrown(s) THEN ThrownError(s.err, s.pos)
    ELSE Returned(s.out)

\* lines 114-119: the output, or the JSONRepairError thrown
Finish(s) ==
    LET e == IF Thrown(s) \/ s.i >= Len(s.text) THEN s ELSE throwUnexpectedCharacter(s)
    IN  IF Thrown(e) THEN ThrownError(e.err, e.pos) ELSE Returned(e.out)

jsonrepair(t) == Finish(Root(t))

----------------------------------------------------------------------------
(* Strict JSON (RFC 8259), to judge the output by                           *)

RECURSIVE JsonWhitespaceEnd(_, _)
JsonWhitespaceEnd(t, k) ==
    IF At(t, k) \in {" ", "\n", "\t", "\r"} THEN JsonWhitespaceEnd(t, k + 1) ELSE k

RECURSIVE JsonStringEnd(_, _)
\* the index after the closing quote of the string whose characters begin at
\* k, or -1
JsonStringEnd(t, k) ==
    LET c == At(t, k)
    IN  IF ~isValidStringCharacter(c) THEN -1
        ELSE IF c = "\"" THEN k + 1
        ELSE IF c = "\\"
        THEN IF At(t, k + 1) \in escapeCharacters THEN JsonStringEnd(t, k + 2)
             ELSE IF At(t, k + 1) = "u" /\ \A j \in 2..5 : isHex(At(t, k + j))
             THEN JsonStringEnd(t, k + 6)
             ELSE -1
        ELSE JsonStringEnd(t, k + 1)

\* the index after the number that begins at k, or -1
JsonNumberEnd(t, k) ==
    LET int == IF At(t, k) = "-" THEN k + 1 ELSE k
        intEnd == IF At(t, int) = "0" THEN int + 1 ELSE DigitsEnd(t, int)
        fracEnd == IF At(t, intEnd) = "." THEN DigitsEnd(t, intEnd + 1) ELSE intEnd
        exp == IF At(t, fracEnd + 1) \in {"+", "-"} THEN fracEnd + 2 ELSE fracEnd + 1
        expEnd == IF At(t, fracEnd) \in {"e", "E"} THEN DigitsEnd(t, exp) ELSE fracEnd
    IN  IF intEnd = int THEN -1
        ELSE IF At(t, intEnd) = "." /\ fracEnd = intEnd + 1 THEN -1
        ELSE IF At(t, fracEnd) \in {"e", "E"} /\ expEnd = exp THEN -1
        ELSE expEnd

RECURSIVE JsonValueEnd(_, _), JsonItemsEnd(_, _), JsonMembersEnd(_, _)

\* k is at whitespace before an item of an array: the index after the "]"
JsonItemsEnd(t, k) ==
    LET e == JsonValueEnd(t, JsonWhitespaceEnd(t, k))
        w == JsonWhitespaceEnd(t, e)
    IN  IF e = -1 THEN -1
        ELSE IF At(t, w) = "," THEN JsonItemsEnd(t, w + 1)
        ELSE IF At(t, w) = "]" THEN w + 1
        ELSE -1

\* k is at whitespace before a member of an object: the index after the "}"
JsonMembersEnd(t, k) ==
    LET q == JsonWhitespaceEnd(t, k)
        keyEnd == IF At(t, q) = "\"" THEN JsonStringEnd(t, q + 1) ELSE -1
        colon == JsonWhitespaceEnd(t, keyEnd)
        e == JsonValueEnd(t, JsonWhitespaceEnd(t, colon + 1))
        w == JsonWhitespaceEnd(t, e)
    IN  IF keyEnd = -1 \/ At(t, colon) # ":" \/ e = -1 THEN -1
        ELSE IF At(t, w) = "," THEN JsonMembersEnd(t, w + 1)
        ELSE IF At(t, w) = "}" THEN w + 1
        ELSE -1

\* the index after the value that begins at k, or -1
JsonValueEnd(t, k) ==
    LET c == At(t, k)
    IN  IF c = "{"
        THEN IF At(t, JsonWhitespaceEnd(t, k + 1)) = "}"
             THEN JsonWhitespaceEnd(t, k + 1) + 1
             ELSE JsonMembersEnd(t, k + 1)
        ELSE IF c = "["
        THEN IF At(t, JsonWhitespaceEnd(t, k + 1)) = "]"
             THEN JsonWhitespaceEnd(t, k + 1) + 1
             ELSE JsonItemsEnd(t, k + 1)
        ELSE IF c = "\"" THEN JsonStringEnd(t, k + 1)
        ELSE IF c = "-" \/ isDigit(c) THEN JsonNumberEnd(t, k)
        ELSE IF Slice(t, k, k + 4) = kwTrue THEN k + 4
        ELSE IF Slice(t, k, k + 5) = kwFalse THEN k + 5
        ELSE IF Slice(t, k, k + 4) = kwNull THEN k + 4
        ELSE -1

\* the text is one JSON value, whitespace around it allowed
IsStrictJSON(t) ==
    LET e == JsonValueEnd(t, JsonWhitespaceEnd(t, 0))
    IN  e # -1 /\ JsonWhitespaceEnd(t, e) = Len(t)

----------------------------------------------------------------------------
(* The inputs and the runs                                                  *)

RECURSIVE Join(_)
\* the pieces, joined into one text
Join(ps) == IF ps = <<>> THEN <<>> ELSE Head(ps) \o Join(Tail(ps))

\* the texts of at most n characters of the set A
Texts(A, n) == UNION {[1..m -> A] : m \in 0..n}

MaxLen == 3

Alphabet ==
    {" ", "\n", "U+00A0", "\"", "\\", ",", ":", "[", "]", "{", "}",
     "(", ")", "-", "1", "e", "a"}

NoResult == [kind |-> "none"]

InitOn(inputs) ==
    /\ parts \in inputs
    /\ text = Join(parts)
    /\ pc = "ready"
    /\ parser = NewState(text)
    /\ result = NoResult
    /\ again = NoResult

Init == InitOn({<<t>> : t \in Texts(Alphabet, MaxLen)})

\* jsonrepair(text)
Repair ==
    /\ pc = "ready"
    /\ parser' = Root(text)
    /\ result' = Finish(parser')
    /\ pc' = "repaired"
    /\ UNCHANGED <<parts, text, again>>

\* jsonrepair(jsonrepair(text))
RepairAgain ==
    /\ pc = "repaired"
    /\ result.kind = "returned"
    /\ again' = jsonrepair(result.output)
    /\ pc' = "repeated"
    /\ UNCHANGED <<parts, text, parser, result>>

Next == Repair \/ RepairAgain

Spec == Init /\ [][Next]_vars

----------------------------------------------------------------------------
(* The contract of jsonrepair, on every short text                          *)

isBlank(t) == \A k \in 1..Len(t) : isWhitespace(t[k]) \/ isSpecialWhitespace(t[k])

\* C1: whenever jsonrepair returns, what it returns is a strict JSON document:
\* not empty, and exactly one JSON value
C1_OutputIsStrictJSON ==
    result.kind = "returned" => IsStrictJSON(result.output)

\* C2: jsonrepair is idempotent: wherever jsonrepair(x) returns,
\* jsonrepair(jsonrepair(x)) returns as well and equals jsonrepair(x)
C2_Idempotent ==
    pc = "repeated" => again = result

\* C7: on an empty or blank text jsonrepair throws "Unexpected end of json
\* string" at the length of the text, and returns nothing
C7_BlankThrowsUnexpectedEnd ==
    pc # "ready" /\ isBlank(text)
        => result = ThrownError(<<"Unexpected end of json string">>, Len(text))

C7_Witness ==
    /\ pc = "repaired"
    /\ Len(text) = 2
    /\ isBlank(text)
    /\ result.kind = "thrown"

\* C8: when the root value, the trailing comma, the newline delimited values
\* and the redundant closers are behind the cursor and the cursor is not at
\* the end of the text, jsonrepair throws "Unexpected character" at the index
\* of the first character left, and returns no output
C8_LeftoverThrowsUnexpectedCharacter ==
    pc # "ready" /\ ~Thrown(parser) /\ parser.i < Len(text)
        => result = ThrownError(<<"Unexpected character ">>
                                    \o Stringify(<<At(text, parser.i)>>), parser.i)

C8_Witness ==
    /\ pc = "repaired"
    /\ ~Thrown(parser)
    /\ parser.i > 0
    /\ parser.i < Len(text)
    /\ parser.out # <<>>
    /\ result.kind = "thrown"

----------------------------------------------------------------------------
(* Strict JSON documents, whole and truncated                               *)

MaxDepth == 2

JsonNumber == <<"-", "1", "2", ".", "5", "e", "+", "1">>

JsonString == <<"\"", "a", ",", "{", "\"">>

JsonEscapes == <<"\"", "\\", "\"", "U+00A0", "\\", "n", "\"">>

JsonKeyA == <<"\"", "a", "\"">>

JsonKeyB == <<"\"", "\\", "u", "0", "0", "e", "9", " ", "\"">>

Scalars == {<<"0">>, JsonNumber, kwNull, JsonString, JsonEscapes}

\* the whitespace between the tokens of a document
Gaps == {<<>>, <<"\n", " ">>}

\* the whitespace around a document
JsonPadding(g) == IF g = <<>> THEN <<>> ELSE <<"\r", "\t">> \o g

JsonItem(g, v) == g \o v \o g

JsonMember(g, key, v) == g \o key \o g \o <<":">> \o g \o v \o g

\* the arrays of no item, of one of V, of one of V and a scalar after it, of
\* two scalars
JsonArrays(g, V) ==
    {<<"[">> \o g \o <<"]">>}
        \cup {<<"[">> \o JsonItem(g, v) \o <<"]">> : v \in V}
        \cup {<<"[">> \o JsonItem(g, p[1]) \o <<",">> \o JsonItem(g, p[2]) \o <<"]">> :
                  p \in (V \X {<<"0">>}) \cup (Scalars \X Scalars)}

\* the objects of no member, of one of V, of a scalar and one of V after it,
\* of two scalars
JsonObjects(g, V) ==
    {<<"{">> \o g \o <<"}">>}
        \cup {<<"{">> \o JsonMember(g, JsonKeyA, v) \o <<"}">> : v \in V}
        \cup {<<"{">> \o JsonMember(g, JsonKeyA, p[1]) \o <<",">>
                      \o JsonMember(g, JsonKeyB, p[2]) \o <<"}">> :
                  p \in ({<<"0">>} \X V) \cup (Scalars \X Scalars)}

RECURSIVE JsonValues(_, _)
\* the values nested at most d deep, written with the gap g
JsonValues(d, g) ==
    IF d = 0 THEN Scalars
    ELSE Scalars \cup JsonArrays(g, JsonValues(d - 1, g))
                 \cup JsonObjects(g, JsonValues(d - 1, g))

JsonDocs ==
    UNION {{JsonPadding(g) \o v \o JsonPadding(g) : v \in JsonValues(MaxDepth, g)} :
               g \in Gaps}

TruncatedDocs ==
    {p \in UNION {{Slice(d, 0, n) : n \in 1..Len(d)} : d \in JsonDocs} : ~isBlank(p)}

InitJSON == InitOn({<<d>> : d \in JsonDocs})

SpecJSON == InitJSON /\ [][Next]_vars

InitTruncated == InitOn({<<p>> : p \in TruncatedDocs})

SpecTruncated == InitTruncated /\ [][Next]_vars

\* C3: a strict JSON document, no special whitespace outside its strings,
\* is returned as it is, character for character
C3_StrictJSONUnchanged ==
    pc # "ready" /\ IsStrictJSON(text) => result = Returned(text)

C3_Witness ==
    /\ pc = "repaired"
    /\ IsStrictJSON(text)
    /\ At(text, 0) = "{"
    /\ \E k \in 1..Len(text) : text[k] = "["
    /\ \E k \in 1..Len(text) : text[k] = "U+00A0"
    /\ result = Returned(text)

\* C5: a truncated document, that is a prefix of a strict JSON document with
\* a character in it that is not whitespace, is repaired: jsonrepair returns,
\* and returns strict JSON
C5_TruncatedIsRepaired ==
    pc # "ready" /\ text \in TruncatedDocs
        => result.kind = "returned" /\ IsStrictJSON(result.output)

----------------------------------------------------------------------------
(* Comments between the tokens of a document                                *)

BlockComment == <<"/", "*", " ", "c", " ", "*", "/">>

LineComment == <<"/", "/", " ", "c", "\n">>

Comments == {BlockComment, LineComment}

CommentChars == {"/", "*", "c"}

NumberLongCall ==
    <<" ", "{", "\"", "x", "\"", ":", " ",
      "N", "u", "m", "b", "e", "r", "L", "o", "n", "g", "(", "\"", "4", "2", "\"", ")", "}">>

NumberLongRepaired ==
    <<"{", "\"", "x", "\"", ":", " ", "\"", "4", "2", "\"", "}">>

\* the two halves of the document d cut where whitespace is allowed
TokenSplits(d) ==
    {sp \in {<<Slice(d, 0, n), SubstringFrom(d, n)>> : n \in 0..Len(d)} :
        IsStrictJSON(sp[1] \o <<" ">> \o sp[2])}

CommentedValues == {<<"0">>, kwNull, JsonKeyA}

\* the documents the comments are put into: a value, an array of one and of
\* two values, an object of one member
CommentedBases ==
    CommentedValues
        \cup {<<"[">> \o v \o <<"]">> : v \in CommentedValues}
        \cup {<<"[">> \o p[1] \o <<",">> \o p[2] \o <<"]">> :
                  p \in CommentedValues \X CommentedValues}
        \cup {<<"{">> \o JsonKeyA \o <<":">> \o v \o <<"}">> : v \in CommentedValues}

CommentedDocs ==
    {<<sp[1], c, sp[2]>> :
        sp \in UNION {TokenSplits(d) : d \in CommentedBases}, c \in Comments}
      \cup {<<(<<>>), BlockComment, NumberLongCall>>}

InitComments == InitOn(CommentedDocs)

SpecComments == InitComments /\ [][Next]_vars

\* C4: a block comment or a line comment between two tokens is skipped and
\* nothing is emitted for it: jsonrepair returns, its output holds nothing of
\* the comment, and /* c */ {"x": NumberLong("42")} becomes {"x": "42"}
C4_CommentsAreSkipped ==
    pc # "ready" /\ parts \in CommentedDocs
        => /\ result.kind = "returned"
           /\ \A k \in 1..Len(result.output) : result.output[k] \notin CommentChars
           /\ parts[3] = NumberLongCall => result.output = NumberLongRepaired

----------------------------------------------------------------------------
(* Newline delimited JSON                                                   *)

MaxValues == 3

NdObject == <<"{", "\"", "a", "\"", ":", " ", "1", "}">>

NdValues == {NdObject, <<"[", "0", "]">>, <<"-", "1">>, <<"2">>, JsonKeyA, kwNull}

NdSeparators == {<<"\n">>, <<",", "\n">>}

RECURSIVE NdParts(_)
\* n values with a separator between each two: value, separator, value, ...
NdParts(n) ==
    IF n = 1 THEN {<<v>> : v \in NdValues}
    ELSE {p \o <<sep, v>> : p \in NdParts(n - 1), sep \in NdSeparators, v \in NdValues}

NdInputs == UNION {NdParts(n) : n \in 2..MaxValues}

RECURSIVE NdLines(_)
\* the values of the parts, a comma and a newline between each two
NdLines(ps) ==
    IF Len(ps) = 1 THEN ps[1]
    ELSE ps[1] \o <<",", "\n">> \o NdLines(SubSeq(ps, 3, Len(ps)))

NdArray(ps) == <<"[", "\n">> \o NdLines(ps) \o <<"\n", "]">>

InitNDJSON == InitOn(NdInputs)

SpecNDJSON == InitNDJSON /\ [][Next]_vars

NdStringBeforeBareValue(ps) ==
    \E k \in 1..(Len(ps) - 2) :
        /\ isDoubleQuote(At(ps[k], 0))
        /\ ps[k + 1] = <<"\n">>
        /\ ~isDelimiter(At(ps[k + 2], 0))
        /\ ~isQuote(At(ps[k + 2], 0))
        /\ ~isDigit(At(ps[k + 2], 0))

----------------------------------------------------------------------------
(* Strings joined by "+"                                                    *)

MaxGap == 1

ConcatStrings ==
    {<<"\"", "\"">>, JsonKeyA, <<"\"", "b", " ", "+", "\"">>, JsonString, JsonEscapes}

\* what follows the "+" when it is no string
ConcatRests == {<<>>, <<"1">>, kwNull}

ConcatGaps == Texts({" ", "\n"}, MaxGap)

\* at the root, or as the item of an array
ConcatContexts == {<<(<<>>), (<<>>)>>, <<(<<"[">>), (<<"]">>)>>}

\* before, the left string, whitespace, "+", whitespace, the right string or
\* what is there in its place, after
ConcatInputs ==
    {<<c[1], s1, g1, <<"+">>, g2, r, c[2]>> :
        c \in ConcatContexts, s1 \in ConcatStrings, g1 \in ConcatGaps,
        g2 \in ConcatGaps, r \in ConcatStrings \cup ConcatRests}

InitConcat == InitOn(ConcatInputs)

SpecConcat == InitConcat /\ [][Next]_vars

Front(t) == SubSeq(t, 1, Len(t) - 1)

\* the left string closed again, and what follows it as the next item
ConcatReclosed(ps) ==
    ps[1] \o ps[2] \o (IF ps[1] # <<>> /\ ps[6] # <<>> THEN <<",">> \o ps[6] ELSE <<>>)
          \o ps[7]

\* C9: two well-formed double-quoted strings joined by "+", whitespace around
\* it or none, become the one string of the content of both: the end quote of
\* the left and the start quote of the right are gone and nothing else is
\* changed. When no string follows the "+", the left string gets its end
\* quote back (and what follows is the next item of the array, or is left
\* over at the root)
C9_ConcatenatedStrings ==
    pc # "ready" /\ parts \in ConcatInputs
        => IF parts[6] \in ConcatStrings
           THEN result = Returned(parts[1] \o Front(parts[2]) \o Tail(parts[6])
                                           \o parts[7])
           ELSE IF parts[1] = <<>> /\ parts[6] # <<>>
           THEN /\ parser.out = parts[2]
                /\ result = ThrownError(<<"Unexpected character ">>
                                            \o Stringify(<<parts[6][1]>>),
                                        Len(text) - Len(parts[6]))
           ELSE result = Returned(ConcatReclosed(parts))

C9_Witness ==
    /\ pc = "repaired"
    /\ parts = <<(<<>>), JsonEscapes, <<"\n">>, <<"+">>, <<" ">>, JsonString, (<<>>)>>
    /\ result = Returned(Front(JsonEscapes) \o Tail(JsonString))

----------------------------------------------------------------------------
(* Function calls around a value: MongoDB types and JSONP                   *)

FunctionNames ==
    {<<"c", "a", "l", "l", "b", "a", "c", "k">>,
     <<"N", "u", "m", "b", "e", "r", "L", "o", "n", "g">>,
     <<"_", "x", "1">>, <<"$">>, <<"f">>, <<"e">>, <<"E", "2">>,
     <<"n", "u", "l", "l", "a", "b", "l", "e">>}

CallObject == <<"{", "\"", "o", "k", "\"", ":", "T", "r", "u", "e", "}">>

CallValues ==
    {<<"1">>, <<"\"", "4", "2", "\"">>, <<"'", "a", "'">>, kwNull, <<"[", "0", ",", "]">>,
     CallObject}

\* the name, "(", the value, ")" and the semicolon or none
CallInputs ==
    {<<f, <<"(">>, v, <<")">>, semicolon>> :
        f \in FunctionNames, v \in CallValues, semicolon \in {<<>>, <<";">>}}

InitCall == InitOn(CallInputs)

SpecCall == InitCall /\ [][Next]_vars

\* C10: a function call emits nothing of its own: for every function name f
\* and every value v, f(v) and f(v); are repaired to what v alone is repaired
\* to, with nothing of the name, the parentheses and the semicolon in it
C10_FunctionCallEmitsNothing ==
    pc # "ready" /\ parts \in CallInputs /\ isFunctionName(parts[1])
                 /\ jsonrepair(parts[3]).kind = "returned"
        => result = jsonrepair(parts[3])

----------------------------------------------------------------------------
(* Special whitespace                                                       *)

\* C11: whenever jsonrepair returns, its output holds no special whitespace
\* character: every one of the input has become a space
C11_NoSpecialWhitespace ==
    result.kind = "returned"
        => \A k \in 1..Len(result.output) : ~isSpecialWhitespace(result.output[k])

----------------------------------------------------------------------------
(* parseValue at the root, one recognizer at a time (lines 121-129): the    *)
(* parser is the state the recognizer named by pc gave back, result keeps   *)
(* the state it was called in.                                              *)

MaxToken == 4

TokenPieces ==
    {<<" ">>, <<"\\">>, <<"\"">>, <<"-">>, <<"0">>, <<"1">>, <<".">>, <<"e">>,
     <<"a">>, <<"[">>, <<"{">>, <<",">>, <<"(">>, kwNull}

TokenInputs == UNION {[1..m -> TokenPieces] : m \in 1..MaxToken}

InitValue == InitOn(TokenInputs)

Called(s) == [kind |-> "called", before |-> s]

\* line 122
SkipWhitespace ==
    /\ pc = "ready"
    /\ parser' = parseWhitespaceAndSkipComments(parser)
    /\ result' = Called(parser)
    /\ pc' = "whitespace"
    /\ UNCHANGED <<parts, text, again>>

\* line 124
TryObject ==
    /\ pc = "whitespace"
    /\ parser' = parseObject(parser)
    /\ result' = Called(parser)
    /\ pc' = "object"
    /\ UNCHANGED <<parts, text, again>>

\* line 125
TryArray ==
    /\ pc = "object" /\ ~Done(parser)
    /\ parser' = parseArray(parser)
    /\ result' = Called(parser)
    /\ pc' = "array"
    /\ UNCHANGED <<parts, text, again>>

\* line 126
TryString ==
    /\ pc = "array" /\ ~Done(parser)
    /\ parser' = parseStringGreedy(parser)
    /\ result' = Called(parser)
    /\ pc' = "string"
    /\ UNCHANGED <<parts, text, again>>

\* line 127
TryNumber ==
    /\ pc = "string" /\ ~Done(parser)
    /\ parser' = parseNumber(parser)
    /\ result' = Called(parser)
    /\ pc' = "number"
    /\ UNCHANGED <<parts, text, again>>

\* line 128
TryKeywords ==
    /\ pc = "number" /\ ~Done(parser)
    /\ parser' = parseKeywords(parser)
    /\ result' = Called(parser)
    /\ pc' = "keywords"
    /\ UNCHANGED <<parts, text, again>>

\* line 129
TryUnquotedString ==
    /\ pc = "keywords" /\ ~Done(parser)
    /\ parser' = parseUnquotedString(parser)
    /\ result' = Called(parser)
    /\ pc' = "unquoted"
    /\ UNCHANGED <<parts, text, again>>

NextValue ==
    \/ SkipWhitespace
    \/ TryObject
    \/ TryArray
    \/ TryString
    \/ TryNumber
    \/ TryKeywords
    \/ TryUnquotedString

SpecValue == InitValue /\ [][NextValue]_vars

Recognizers == {"whitespace", "object", "array", "string", "number", "keywords", "unquoted"}

\* C12: outside the string recognizer the cursor is never given a smaller
\* value than it had: the number recognizer, which moves it past a minus
\* sign (lines 617-618), leaves it past that sign; the unquoted string
\* recognizer, which moves it to the end of its run (lines 723-725), leaves
\* it there or further on; no recognizer leaves it before the place it was
\* called at
C12_CursorGoesBackOnlyInString ==
    pc \in Recognizers \ {"string"}
        => /\ parser.i >= result.before.i
           /\ pc = "number" /\ Cur(result.before) = "-" => parser.i > result.before.i
           /\ pc = "unquoted" => parser.i >= UnquotedEnd(text, result.before.i)

\* the checkpoint of parseString: the cursor after the backslash before the
\* opening quote, if there is one (lines 425-432, 435)
iBefore(s) == IF Cur(s) = "\\" THEN s.i + 1 ELSE s.i

\* C12, amended: a recognizer moves the cursor back at most to where it
\* started. The number recognizer that returns false has put the cursor back
\* on its start (lines 624, 645, 664, 672); the unquoted string recognizer
\* goes back over the whitespace that ends its run and no further (lines
\* 754-756); the string recognizer leaves the cursor at its checkpoint or
\* after it; whitespace, keywords, objects and arrays leave it where it was or
\* further on
C12_CursorGoesBackToStartAtMost ==
    pc \in Recognizers
        => /\ parser.i >= result.before.i
           /\ pc = "number" /\ ~parser.ok => parser.i = result.before.i
           /\ pc = "unquoted"
                => \A k \in parser.i..(UnquotedEnd(text, result.before.i) - 1) :
                       isWhitespace(At(text, k))
           /\ pc = "string" => parser.i >= iBefore(result.before)

C12_Witness ==
    /\ pc = "unquoted"
    /\ parser.ok
    /\ parser.i > result.before.i
    /\ parser.i < UnquotedEnd(text, result.before.i)

----------------------------------------------------------------------------
(* Stringified strings: a backslash before the opening quote and after each *)
(* character                                                                *)

MaxEscaped == 3

EscapedChars == {"a", "n", "t", "1"}

\* what ends the string: its escaped end quote, or a delimiter in its place
EscapedEnds == {<<"\\", "\"">>, <<",">>, <<"]">>, <<"}">>}

RECURSIVE EscapedBodies(_)
\* n characters, a backslash between each two
EscapedBodies(n) ==
    IF n = 1 THEN {<<(<<c>>)>> : c \in EscapedChars}
    ELSE {b \o <<(<<"\\">>), (<<c>>)>> : b \in EscapedBodies(n - 1), c \in EscapedChars}

EscapedInputs ==
    {<<(<<"\\", "\"">>)>> \o b \o <<e>> :
        b \in UNION {EscapedBodies(n) : n \in 1..MaxEscaped}, e \in EscapedEnds}

\* the characters of the string, without the backslashes
EscapedContent(ps) == Join([k \in 1..((Len(ps) - 1) \div 2) |-> ps[2 * k]])

InitEscaped == InitOn(EscapedInputs)

SpecEscaped == InitEscaped /\ [][Next]_vars

\* C13: in a string that begins with a backslash before its opening quote
\* the backslash after each character is skipped, in the greedy run and in
\* the run restarted in stop-at-delimiter mode alike: whether the string ends
\* with its end quote or with a delimiter, what is returned is the string of
\* its characters
C13_SkipEscapeCharsPersists ==
    pc # "ready" /\ parts \in EscapedInputs
        => result = Returned(<<"\"">> \o EscapedContent(parts) \o <<"\"">>)

----------------------------------------------------------------------------
(* What the recognizers of numbers and tokens leave behind                  *)

\* what the recognizer appended to the output
Appended == SubstringFrom(parser.out, Len(result.before.out))

\* a strict JSON number literal, and nothing after it
IsJsonNumber(t) == t # <<>> /\ JsonNumberEnd(t, 0) = Len(t)

\* a double-quoted JSON string, and nothing after it
IsJsonString(t) == At(t, 0) = "\"" /\ JsonStringEnd(t, 1) = Len(t)

\* C14: whenever the number recognizer returns true, what it appended to the
\* output is a strict JSON number literal or a double-quoted string
C14_NumberIsStrictOrQuoted ==
    pc = "number" /\ parser.ok => IsJsonNumber(Appended) \/ IsJsonString(Appended)

\* C16: a token recognizer (string, number, keywords, unquoted string) that
\* returns false has consumed nothing: the cursor and the output are as they
\* were when it was called
C16_FalseConsumesNothing ==
    pc \in {"string", "number", "keywords", "unquoted"} /\ ~parser.ok /\ ~Thrown(parser)
        => parser.i = result.before.i /\ parser.out = result.before.out

----------------------------------------------------------------------------
(* jsonrepair step by step: a turn of a loop is a step. The loops are the   *)
(* one of the array, the object or the string the text begins with, the one *)
(* of the newline delimited values and the one of the redundant closers;    *)
(* what a turn calls is taken as a whole. parser is the state between two   *)
(* steps, result holds the local variables of the loop the parser is in,    *)
(* and in the end what jsonrepair returned or threw.                        *)

MaxTurns == 4

LoopPieces == {"[", "]", "{", "}", ",", ":", "\"", "\\", "\n", "a", "1"}

\* the text is put together before jsonrepair is called, from nothing on
InitLoops == InitOn({<<(<<>>)>>})

\* one more character of the text jsonrepair is going to be called with
Write ==
    /\ pc = "ready"
    /\ Len(text) < MaxTurns
    /\ \E c \in LoopPieces :
           /\ text' = Append(text, c)
           /\ parts' = <<text'>>
           /\ parser' = NewState(text')
    /\ UNCHANGED <<pc, result, again>>

Loops == {"array", "object", "string", "values", "closers"}

\* the step to the state s: a thrown error ends jsonrepair
GoTo(s, next, locals) ==
    /\ parser' = s
    /\ pc' = IF Thrown(s) THEN "done" ELSE next
    /\ result' = IF Thrown(s) THEN Finish(s) ELSE locals
    /\ UNCHANGED <<parts, text, again>>

LoopLocals(loop, initial) == [kind |-> loop, initial |-> initial]

\* lines 425-432: the cursor of parseString on the opening quote, if there is one
StringStart(s) == IF Cur(s) = "\\" THEN [s EXCEPT !.i = @ + 1] ELSE s

\* lines 425-449: the local variables of parseString when its loop begins
StringLocals(s, stopAtDelimiter, restarts) ==
    [kind |-> "string",
     str |-> <<"\"">>,
     stopAtDelimiter |-> stopAtDelimiter,
     skipEscapeChars |-> Cur(s) = "\\",
     endQuote |-> EndQuoteClass(Cur(StringStart(s))),
     iBefore |-> StringStart(s).i,
     oBefore |-> Len(s.out),
     restarts |-> restarts]

\* lines 84, 122, 124, 334-342: the text begins with an array
StartArray ==
    /\ pc = "ready"
    /\ Cur(parseWhitespaceAndSkipComments(parser)) = "["
    /\ GoTo(ArrayOpen(parseWhitespaceAndSkipComments(parser)), "array",
            LoopLocals("array", TRUE))

\* lines 84, 122-123, 250-258: the text begins with an object
StartObject ==
    /\ pc = "ready"
    /\ Cur(parseWhitespaceAndSkipComments(parser)) = "{"
    /\ GoTo(ObjectOpen(parseWhitespaceAndSkipComments(parser)), "object",
            LoopLocals("object", TRUE))

\* lines 84, 122-126, 425-449: the text begins with a string
StartString ==
    /\ pc = "ready"
    /\ isQuote(Cur(StringStart(parseWhitespaceAndSkipComments(parser))))
    /\ GoTo([StringStart(parseWhitespaceAndSkipComments(parser)) EXCEPT !.i = @ + 1],
            "string",
            StringLocals(parseWhitespaceAndSkipComments(parser), FALSE, 0))

\* lines 84, 122-129: the text begins with something else, no loop is entered;
\* the whitespace after the value is left to AfterValue
StartToken ==
    /\ pc = "ready"
    /\ Cur(parseWhitespaceAndSkipComments(parser)) \notin {"[", "{"}
    /\ ~isQuote(Cur(StringStart(parseWhitespaceAndSkipComments(parser))))
    /\ GoTo(ValueOrString(Ret(parseWhitespaceAndSkipComments(parser), FALSE)), "value",
            NoResult)

\* lines 359-374: value is the state parseValue gave back
ArrayTurnTo(value) ==
    IF Done(value)
    THEN GoTo(value, "array", LoopLocals("array", FALSE))
    ELSE GoTo(ArrayClose([value EXCEPT !.out = stripLastOccurrence(@, ",", FALSE)]),
              "value", NoResult)

\* lines 345-364: a turn of the loop of parseArray; without a value the loop
\* is left (line 362) and the array closed (lines 366-374)
ArrayTurn ==
    /\ pc = "array"
    /\ parser.i < Len(text) /\ Cur(parser) # "]"
    /\ ArrayTurnTo(parseValue(skipEllipsis(ArrayComma(parser, result.initial))))

\* lines 345, 366-374: the loop of parseArray has come to its end
ArrayEnd ==
    /\ pc = "array"
    /\ ~(parser.i < Len(text) /\ Cur(parser) # "]")
    /\ GoTo(ArrayClose(parser), "value", NoResult)

\* lines 305-313: value is the state parseValue gave back
ObjectTurnedValue(value, processedColon, truncatedText) ==
    CASE Done(value) -> value
      [] processedColon \/ truncatedText -> [value EXCEPT !.out = @ \o kwNull, !.ok = TRUE]
      [] OTHER -> throwColonExpected(value)

\* lines 295-305: colon is the state parseCharacter(codeColon) gave back
ObjectTurnedColon(colon) ==
    CASE colon.ok -> ObjectTurnedValue(parseValue(colon), TRUE, AtEnd(colon))
      [] isStartOfValue(Cur(colon)) \/ AtEnd(colon)
           -> ObjectTurnedValue(
                  parseValue([colon EXCEPT !.out = insertBeforeLastWhitespace(@, <<":">>)]),
                  FALSE, AtEnd(colon))
      [] OTHER -> throwColonExpected(colon)

\* lines 278-295: key is the state parseString() || parseUnquotedString() gave
\* back
ObjectTurnedKey(key) ==
    CASE key.ok -> ObjectTurnedColon(parseCharacter(parseWhitespaceAndSkipComments(key), ":"))
      [] Thrown(key) -> key
      [] Cur(key) \in {"}", "{", "]", "[", ""}
           -> [key EXCEPT !.out = stripLastOccurrence(@, ",", FALSE)]
      [] OTHER -> throwObjectKeyExpected(key)

\* lines 262-313, one turn of the loop of parseObject: the state after it, ok
\* telling whether the loop goes on (a key was found)
ObjectTurned(s, initial) ==
    ObjectTurnedKey(ObjectKey(parseString(skipEllipsis(ObjectComma(s, initial)), FALSE)))

\* lines 261-314: a turn of the loop of parseObject; without a key the loop
\* is left (line 291) and the object closed (lines 316-324)
ObjectTurn ==
    /\ pc = "object"
    /\ parser.i < Len(text) /\ Cur(parser) # "}"
    /\ IF Done(ObjectTurned(parser, result.initial))
       THEN GoTo(ObjectTurned(parser, result.initial), "object", LoopLocals("object", FALSE))
       ELSE GoTo(ObjectClose(ObjectTurned(parser, result.initial)), "value", NoResult)

\* lines 261, 316-324: the loop of parseObject has come to its end
ObjectEnd ==
    /\ pc = "object"
    /\ ~(parser.i < Len(text) /\ Cur(parser) # "}")
    /\ GoTo(ObjectClose(parser), "value", NoResult)

\* lines 483-489: the quote under the cursor is the end of the string
StringQuoteIsEnd(s, c) ==
    \/ c.stopAtDelimiter
    \/ AtEnd(parseWhitespaceAndSkipComments([s EXCEPT !.i = @ + 1]))
    \/ isDelimiter(Cur(parseWhitespaceAndSkipComments([s EXCEPT !.i = @ + 1])))
    \/ isQuote(Cur(parseWhitespaceAndSkipComments([s EXCEPT !.i = @ + 1])))
    \/ isDigit(Cur(parseWhitespaceAndSkipComments([s EXCEPT !.i = @ + 1])))

\* lines 455-464 and 497-505: the string is parsed again, to stop at the
\* first delimiter
StringRewinds(s, c) ==
    /\ ~c.stopAtDelimiter
    /\ isDelimiter(At(s.text, prevNonWhitespaceIndex(s.text, s.i - 1)))
    /\ \/ s.i >= Len(s.text)
       \/ isEndQuote(c.endQuote, Cur(s)) /\ ~StringQuoteIsEnd(s, c)

\* lines 538-543 and 566-568: the turn throws
StringThrows(s) ==
    \/ /\ Cur(s) = "\\" /\ At(s.text, s.i + 1) = "u"
       /\ HexEnd(s.text, s.i, 2) < 6
       /\ s.i + HexEnd(s.text, s.i, 2) < Len(s.text)
    \/ /\ Cur(s) # "\\"
       /\ ~(Cur(s) = "\"" /\ At(s.text, s.i - 1) # "\\")
       /\ ~isControlCharacter(Cur(s))
       /\ ~isValidStringCharacter(Cur(s))

\* lines 452-523, 538-543, 566-568: parseString returns or throws in this turn
StringReturns(s, c) ==
    /\ ~StringRewinds(s, c)
    /\ \/ s.i >= Len(s.text)
       \/ isEndQuote(c.endQuote, Cur(s)) /\ StringQuoteIsEnd(s, c)
       \/ ~isEndQuote(c.endQuote, Cur(s)) /\ c.stopAtDelimiter /\ isDelimiter(Cur(s))
       \/ ~isEndQuote(c.endQuote, Cur(s)) /\ StringThrows(s)

\* StringTurned, were the cursor put back on the quote that is not the end
\* of the string
StringTurnedOnQuote(s, c) ==
    CASE isEndQuote(c.endQuote, Cur(s))
           -> [state |-> StringNext([s EXCEPT !.out = Slice(@, 0, c.oBefore)],
                                    c.skipEscapeChars),
               str |-> c.str \o <<"\\", "\"">>]
      [] Cur(s) = "\\" /\ At(s.text, s.i + 1) \in escapeCharacters
           -> [state |-> StringNext([s EXCEPT !.i = @ + 2], c.skipEscapeChars),
               str |-> c.str \o Slice(s.text, s.i, s.i + 2)]
      [] Cur(s) = "\\" /\ At(s.text, s.i + 1) = "u" /\ HexEnd(s.text, s.i, 2) = 6
           -> [state |-> StringNext([s EXCEPT !.i = @ + 6], c.skipEscapeChars),
               str |-> c.str \o Slice(s.text, s.i, s.i + 6)]
      [] Cur(s) = "\\" /\ At(s.text, s.i + 1) = "u"
           -> [state |-> StringNext([s EXCEPT !.i = Len(s.text)], c.skipEscapeChars),
               str |-> c.str]
      [] Cur(s) = "\\"
           -> [state |-> StringNext([s EXCEPT !.i = @ + 2], c.skipEscapeChars),
               str |-> c.str \o Slice(s.text, s.i + 1, s.i + 2)]
      [] Cur(s) = "\"" /\ At(s.text, s.i - 1) # "\\"
           -> [state |-> StringNext([s EXCEPT !.i = @ + 1], c.skipEscapeChars),
               str |-> c.str \o <<"\\", Cur(s)>>]
      [] isControlCharacter(Cur(s))
           -> [state |-> StringNext([s EXCEPT !.i = @ + 1], c.skipEscapeChars),
               str |-> c.str \o controlCharacters(Cur(s))]
      [] OTHER
           -> [state |-> StringNext([s EXCEPT !.i = @ + 1], c.skipEscapeChars),
               str |-> Append(c.str, Cur(s))]

\* a turn of the loop of parseString that goes on to the next: the state and
\* the string after it. Lines 507-512 (the quote is not the end of the
\* string), 524-551 (a backslash), 552-572 (another character), 574-577
StringTurned(s, c) ==
    CASE isEndQuote(c.endQuote, Cur(s))
           -> [state |-> StringNext([s EXCEPT !.out = Slice(@, 0, c.oBefore), !.i = @ + 1],
                                    c.skipEscapeChars),
               str |-> c.str \o <<"\\", "\"">>]
      [] Cur(s) = "\\" /\ At(s.text, s.i + 1) \in escapeCharacters
           -> [state |-> StringNext([s EXCEPT !.i = @ + 2], c.skipEscapeChars),
               str |-> c.str \o Slice(s.text, s.i, s.i + 2)]
      [] Cur(s) = "\\" /\ At(s.text, s.i + 1) = "u" /\ HexEnd(s.text, s.i, 2) = 6
           -> [state |-> StringNext([s EXCEPT !.i = @ + 6], c.skipEscapeChars),
               str |-> c.str \o Slice(s.text, s.i, s.i + 6)]
      [] Cur(s) = "\\" /\ At(s.text, s.i + 1) = "u"
           -> [state |-> StringNext([s EXCEPT !.i = Len(s.text)], c.skipEscapeChars),
               str |-> c.str]
      [] Cur(s) = "\\"
           -> [state |-> StringNext([s EXCEPT !.i = @ + 2], c.skipEscapeChars),
               str |-> c.str \o Slice(s.text, s.i + 1, s.i + 2)]
      [] Cur(s) = "\"" /\ At(s.text, s.i - 1) # "\\"
           -> [state |-> StringNext([s EXCEPT !.i = @ + 1], c.skipEscapeChars),
               str |-> c.str \o <<"\\", Cur(s)>>]
      [] isControlCharacter(Cur(s))
           -> [state |-> StringNext([s EXCEPT !.i = @ + 1], c.skipEscapeChars),
               str |-> c.str \o controlCharacters(Cur(s))]
      [] OTHER
           -> [state |-> StringNext([s EXCEPT !.i = @ + 1], c.skipEscapeChars),
               str |-> Append(c.str, Cur(s))]

\* lines 451-578: a turn of the loop of parseString that goes on
StringTurn ==
    /\ pc = "string"
    /\ ~StringRewinds(parser, result) /\ ~StringReturns(parser, result)
    /\ GoTo(StringTurned(parser, result).state, "string",
            [result EXCEPT !.str = StringTurned(parser, result).str])

\* lines 461-464 and 501-505: i = iBefore, the output cut back to oBefore,
\* parseString(true)
StringRestart ==
    /\ pc = "string"
    /\ StringRewinds(parser, result)
    /\ LET s == [parser EXCEPT !.i = result.iBefore, !.out = Slice(@, 0, result.oBefore)]
       IN  GoTo([StringStart(s) EXCEPT !.i = @ + 1], "string",
                StringLocals(s, TRUE, result.restarts + 1))

\* the turn in which parseString returns true or throws
StringReturn ==
    /\ pc = "string"
    /\ StringReturns(parser, result)
    /\ GoTo(StringLoop(parser, result.str, result.stopAtDelimiter, result.skipEscapeChars,
                       result.endQuote, result.iBefore, result.oBefore),
            "value", NoResult)

\* lines 84-87, 130-132: no value at the root
AfterNoValue ==
    /\ pc = "value"
    /\ ~parser.ok
    /\ GoTo(throwUnexpectedEnd(ValueEnd(parser)), "done", NoResult)

\* lines 89-92: the comma after the root value and the whitespace after it
RootComma(s) ==
    IF parseCharacter(s, ",").ok
    THEN Ret(parseWhitespaceAndSkipComments(parseCharacter(s, ",")), TRUE)
    ELSE parseCharacter(s, ",")

\* line 94: another value follows the root value
RootValueFollows(s) == isStartOfValue(Cur(s)) /\ endsWithCommaOrNewline(s.out)

\* lines 94-102: newline delimited JSON begins
AfterValueToValues ==
    /\ pc = "value"
    /\ parser.ok
    /\ RootValueFollows(RootComma(ValueEnd(parser)))
    /\ GoTo(IF RootComma(ValueEnd(parser)).ok
            THEN RootComma(ValueEnd(parser))
            ELSE [RootComma(ValueEnd(parser)) EXCEPT
                      !.out = insertBeforeLastWhitespace(@, <<",">>)],
            "values", LoopLocals("values", TRUE))

\* lines 103-106: no other value follows, a trailing comma is removed
AfterValueToClosers ==
    /\ pc = "value"
    /\ parser.ok
    /\ ~RootValueFollows(RootComma(ValueEnd(parser)))
    /\ GoTo(IF RootComma(ValueEnd(parser)).ok
            THEN [RootComma(ValueEnd(parser)) EXCEPT
                      !.out = stripLastOccurrence(@, ",", FALSE)]
            ELSE RootComma(ValueEnd(parser)),
            "closers", NoResult)

\* lines 400-409: value is the state parseValue gave back
ValuesTurnTo(value) ==
    IF Done(value)
    THEN GoTo(value, "values", LoopLocals("values", FALSE))
    ELSE GoTo(NewlineDelimitedWrap(value), "closers", NoResult)

\* lines 388-409: a turn of the loop of parseNewlineDelimitedJSON; without a
\* value the loop is left and the output wrapped
ValuesTurn ==
    /\ pc = "values"
    /\ ValuesTurnTo(parseValue(NewlineDelimitedComma(parser, result.initial)))

\* lines 109-112: a turn of the loop over the redundant closers
CloserTurn ==
    /\ pc = "closers"
    /\ Cur(parser) \in {"}", "]"}
    /\ GoTo(parseWhitespaceAndSkipComments([parser EXCEPT !.i = @ + 1]), "closers", NoResult)

\* lines 114-119
Return ==
    /\ pc = "closers"
    /\ Cur(parser) \notin {"}", "]"}
    /\ parser' = parser
    /\ pc' = "done"
    /\ result' = Finish(parser)
    /\ UNCHANGED <<parts, text, again>>

\* a step of jsonrepair
Step ==
    \/ StartArray
    \/ StartObject
    \/ StartString
    \/ StartToken
    \/ ArrayTurn
    \/ ArrayEnd
    \/ ObjectTurn
    \/ ObjectEnd
    \/ StringTurn
    \/ StringRestart
    \/ StringReturn
    \/ AfterNoValue
    \/ AfterValueToValues
    \/ AfterValueToClosers
    \/ ValuesTurn
    \/ CloserTurn
    \/ Return

NextLoops == Write \/ Step

\* jsonrepair, once called, runs on: weak fairness of Step. A step can be
\* taken in every state but the last, so that ENABLED <<Step>>_vars is
\* pc # "done"
StepIsFair == []<>(pc = "done") \/ []<><<Step>>_vars

SpecLoops == InitLoops /\ [][NextLoops]_vars /\ StepIsFair

\* the steps give what jsonrepair gives
LoopsAgree == pc = "done" => result = jsonrepair(text)

\* a turn of a loop that goes on to another turn moves the cursor on, or is
\* the first restart of the string recognizer
TurnAdvances ==
    pc \in Loops /\ pc' = pc
        => \/ parser'.i > parser.i
           \/ pc = "string" /\ result.restarts = 0 /\ result'.restarts = 1

\* C15: jsonrepair terminates. No turn of a loop (array, object, string,
\* newline delimited values, redundant closers) that goes on to another turn
\* leaves the cursor where it was or before, but the one in which the string
\* recognizer starts again in stop-at-delimiter mode, which happens at most
\* once for a string; and every run of jsonrepair comes to its end, where it
\* has returned an output or thrown an error
C15_Terminates ==
    /\ [][TurnAdvances]_vars
    /\ [](pc = "string" => result.restarts \in {0, 1})
    /\ [](pc = "done" => result.kind \in {"returned", "thrown"})
    /\ <>(pc = "done")

C15_Witness ==
    /\ pc = "string"
    /\ result.restarts = 1
    /\ parser.i > result.iBefore + 1

====
